---- MODULE Spec2Model ----
(***************************************************************************)
(* Candidate-region detection and growth (KernelCandidateDetection) and    *)
(* the spatial kernel visitor (BuildSpatialKernelVisitor) of ip_diffim.    *)
(*                                                                         *)
(* A footprint is a finite set of pixels <<x, y>>; a box is a record of    *)
(* inclusive integer corners; an image is a record of its box and of its   *)
(* mask plane, a function from the pixels of the box to mask values.       *)
(***************************************************************************)
EXTENDS Integers, Sequences, FiniteSets

VARIABLES
    policy,        \* _policy: the options it holds and the names of those it lacks
    badBitMask,    \* _badBitMask
    footprints,    \* _footprints
    pc,            \* "idle", "apply" (the loop of apply), "grow" (growCandidate),
                   \* "returned" (a call has ended), "noObject" (the constructor threw)
    caller,        \* who called growCandidate: "apply", "direct", or "none"
    tmpl,          \* templateMaskedImage of the call in progress
    sci,           \* scienceMaskedImage of the call in progress
    growPix,       \* fpGrowPix argument of growCandidate
    raws,          \* *footprintListInPtr: the raw regions detection returned
    idx,           \* position of apply's iterator in raws (1-based)
    fp,            \* the fp argument of the innermost growCandidate call
    rawFp,         \* the fp argument of the outermost growCandidate call
    depth,         \* nesting depth of the growCandidate calls in progress
    fpGrow,        \* the grown footprint the last decision built ({} if none)
    ret,           \* what growCandidate returned: "true", "false" ("none": not yet,
                   \* "threw": it ended in an exception)
    preList,       \* history: _footprints when the outermost growCandidate was called
    outcome,       \* how apply ended: "none", "returned", "raised" (the pass-level
                   \* error), "policyError" (a read of apply threw), "growError"
                   \* (growCandidate threw)
    accepted,      \* history: one record per stored footprint, in order of acceptance
    directCalls,   \* history: direct growCandidate calls since the list was last reset
    priorLen,      \* history: the length of _footprints when apply was called
    solverState,   \* spatial kernel solver: "collecting", "solved", "packaged"
    nCandidates,   \* _nCandidates
    nUsed,         \* candidates whose contribution was accumulated
    lastCall,      \* the last solver operation called
    lastResult     \* what that call yielded: "none", "ok", "error", "pair"

growerVars == <<policy, badBitMask, footprints, pc, caller, tmpl, sci, growPix, raws,
                idx, fp, rawFp, depth, fpGrow, ret, preList, outcome, accepted,
                directCalls, priorLen>>
solverVars == <<solverState, nCandidates, nUsed, lastCall, lastResult>>
vars == <<policy, badBitMask, footprints, pc, caller, tmpl, sci, growPix, raws,
          idx, fp, rawFp, depth, fpGrow, ret, preList, outcome, accepted,
          directCalls, priorLen, solverState, nCandidates, nUsed, lastCall, lastResult>>

(***************************************************************************)
(* Bounds of the model.                                                    *)
(***************************************************************************)
MaxRaw == 2
MaxDepth == 3
MaxDirect == 1
MaxPlanes == 2
MaxCandidates == 5

(***************************************************************************)
(* Integer helpers.                                                        *)
(***************************************************************************)
RECURSIVE BitAnd(_, _)
BitAnd(a, b) ==
    IF a = 0 \/ b = 0 THEN 0
    ELSE (a % 2) * (b % 2) + 2 * BitAnd(a \div 2, b \div 2)

RECURSIVE BitOr(_, _)
BitOr(a, b) ==
    IF a = 0 THEN b
    ELSE IF b = 0 THEN a
    ELSE (IF a % 2 = 1 \/ b % 2 = 1 THEN 1 ELSE 0) + 2 * BitOr(a \div 2, b \div 2)

RECURSIVE Pow2(_)
Pow2(n) == IF n = 0 THEN 1 ELSE 2 * Pow2(n - 1)

BitSet(v, b) == (v \div Pow2(b)) % 2 = 1

SetMin(S) == CHOOSE m \in S : \A n \in S : m <= n
SetMax(S) == CHOOSE m \in S : \A n \in S : m >= n
Abs(n) == IF n < 0 THEN -n ELSE n

\* int(0.5 * n): the double is truncated towards zero
TruncHalf(n) == IF n >= 0 THEN n \div 2 ELSE -((-n) \div 2)

(***************************************************************************)
(* Geometry: boxes and footprints.                                         *)
(***************************************************************************)
Box(x0, y0, x1, y1) == [minX |-> x0, minY |-> y0, maxX |-> x1, maxY |-> y1]

BoxPixels(b) == (b.minX .. b.maxX) \X (b.minY .. b.maxY)

\* Box2I(): the empty box has minimum (0, 0) and no extent
EmptyBox == Box(0, 0, -1, -1)
IsEmpty(b) == b.maxX < b.minX \/ b.maxY < b.minY

\* Box2I::contains(Box2I)
Contains(outer, inner) ==
    \/ IsEmpty(inner)
    \/ /\ outer.minX <= inner.minX /\ inner.maxX <= outer.maxX
       /\ outer.minY <= inner.minY /\ inner.maxY <= outer.maxY

\* Footprint::getBBox
GetBBox(f) ==
    IF f = {} THEN EmptyBox
    ELSE Box(SetMin({p[1] : p \in f}), SetMin({p[2] : p \in f}),
             SetMax({p[1] : p \in f}), SetMax({p[2] : p \in f}))

GetArea(f) == Cardinality(f)

\* static_cast<std::size_t>(fpNpixMax): a negative maximum wraps to a value no
\* footprint area reaches, so only a non-negative maximum can be exceeded
Oversize(f, npixMax) == npixMax >= 0 /\ GetArea(f) > npixMax

\* the single-pixel footprint at the centre of the bounding box
Core(f) ==
    LET b == GetBBox(f)
        xc == TruncHalf(b.minX + b.maxX)
        yc == TruncHalf(b.minY + b.maxY)
    IN  {<<xc, yc>>}

\* SpanSet::dilated(r, Stencil::MANHATTAN): every pixel within L1 distance r
DilatedInward(f, r) ==
    {p \in f : \A q \in (p[1] - r .. p[1] + r) \X (p[2] - r .. p[2] + r) :
                  Abs(p[1] - q[1]) + Abs(p[2] - q[2]) <= r /\ q # p => q \in f}
Dilated(f, r) ==
    LET b == GetBBox(f)
    IN  {p \in (b.minX - r .. b.maxX + r) \X (b.minY - r .. b.maxY + r) :
            \E q \in f : Abs(p[1] - q[1]) + Abs(p[2] - q[2]) <= r}

(***************************************************************************)
(* Images and masks.                                                       *)
(***************************************************************************)
Image(b, m) == [bbox |-> b, mask |-> m]

\* MaskedImage(parent, bbox): the sub-image constructor throws when bbox is
\* not inside the parent's bounds
ExtractionThrows(img, b) == ~Contains(img.bbox, b)

\* FindSetBits::apply followed by getBits: the OR of every mask pixel
RECURSIVE OrOver(_, _)
OrOver(m, pixels) ==
    IF pixels = {} THEN 0
    ELSE LET p == CHOOSE q \in pixels : TRUE
         IN  BitOr(m[p], OrOver(m, pixels \ {p}))

FindSetBits(img, b) == OrOver(img.mask, BoxPixels(b))

(***************************************************************************)
(* The mask-plane registry and the constructor.                            *)
(***************************************************************************)
PlaneBit == [n \in {"BAD", "SAT", "INTRP"} |->
                IF n = "BAD" THEN 0 ELSE IF n = "SAT" THEN 1 ELSE 2]

KnownPlane(n) == n \in DOMAIN PlaneBit

\* Mask::getPlaneBitMask(name) for a known name
GetPlaneBitMask(n) == Pow2(PlaneBit[n])

\* the loop of the constructor: an unknown name throws inside the try block
\* of its own iteration, and the loop goes on
RECURSIVE BadBitMaskStopAtUnknown(_, _)
BadBitMaskStopAtUnknown(planes, acc) ==
    IF planes = <<>> THEN acc
    ELSE IF KnownPlane(Head(planes))
         THEN BadBitMaskStopAtUnknown(Tail(planes), BitOr(acc, GetPlaneBitMask(Head(planes))))
         ELSE acc
RECURSIVE BadBitMaskLoop(_, _)
BadBitMaskLoop(planes, acc) ==
    IF planes = <<>> THEN acc
    ELSE IF KnownPlane(Head(planes))
         THEN BadBitMaskLoop(Tail(planes), BitOr(acc, GetPlaneBitMask(Head(planes))))
         ELSE BadBitMaskLoop(Tail(planes), acc)

Constructor(p) == BadBitMaskLoop(p.badMaskPlanes, 0)

(***************************************************************************)
(* The decisions of growCandidate.                                         *)
(***************************************************************************)
\* Failure Condition 2: grown off the (template) image
GrownOffImage(t, gbox) == ~Contains(t.bbox, gbox)

\* the try block: both sub-images are extracted, then both masks are searched
SubimageFailsTemplateOnly(t, s, gbox, bad) ==
    IF ExtractionThrows(t, gbox) \/ ExtractionThrows(s, gbox) THEN TRUE
    ELSE BitAnd(FindSetBits(t, gbox), bad) # 0
SubimageHasFailed(t, s, gbox, bad) ==
    IF ExtractionThrows(t, gbox) \/ ExtractionThrows(s, gbox) THEN TRUE
    ELSE \/ BitAnd(FindSetBits(t, gbox), bad) # 0
         \/ BitAnd(FindSetBits(s, gbox), bad) # 0

\* the value growCandidate returns for the grown footprint g
GoodCandidateBoundsOnly(g, t, s, bad) == ~GrownOffImage(t, GetBBox(g))
GoodCandidate(g, t, s, bad) ==
    /\ ~GrownOffImage(t, GetBBox(g))
    /\ ~SubimageHasFailed(t, s, GetBBox(g), bad)

\* _footprints.push_back(fpGrow)
PushFront(list, g) == <<g>> \o list
PushBack(list, g) == Append(list, g)

\* _footprints.clear()
Kept(list) == list
Cleared(list) == <<>>

\* the test that makes apply throw
NoneDetected(list, detected) == Len(detected) = 0
NoFootprints(list, detected) == Len(list) = 0

(***************************************************************************)
(* The inputs the model draws from.                                        *)
(***************************************************************************)
TemplateBoxes == {Box(0, 0, 2, 2)}
ScienceBoxes == {Box(0, 0, 2, 2), Box(1, 0, 3, 2)}
\* a marked mask pixel: <<pixel, mask value>>
Marks == {<<<<0, 0>>, 1>>, <<<<1, 1>>, 1>>, <<<<1, 1>>, 2>>, <<<<2, 1>>, 1>>}
GrowMargins == {0, 1}
NpixMaxValues == {-1, 0, 2, 3}
PlaneNames == {"BAD", "SAT", "NOPE"}

CleanMask(b) == [p \in BoxPixels(b) |-> 0]
MarkedMask(b, mark) == [p \in BoxPixels(b) |-> IF p = mark[1] THEN mark[2] ELSE 0]
Masks(b) ==
    {CleanMask(b)} \cup {MarkedMask(b, mark) : mark \in {k \in Marks : k[1] \in BoxPixels(b)}}
Images(boxes) == UNION {{Image(b, m) : m \in Masks(b)} : b \in boxes}

\* co-registered pairs with at most one marked mask pixel between them
ImagePairs ==
    {pair \in Images(TemplateBoxes) \X Images(ScienceBoxes) :
        \/ pair[1].mask = CleanMask(pair[1].bbox)
        \/ pair[2].mask = CleanMask(pair[2].bbox)}

\* the pairs a direct call of growCandidate is given
DirectPairs ==
    {pair \in ImagePairs :
        /\ pair[1].mask[<<0, 0>>] = 0
        /\ pair[1].mask[<<2, 1>>] = 0
        /\ pair[2].mask[<<1, 1>>] = 0
        /\ pair[2].mask[<<2, 1>>] = 0}

RawRegions ==
    {{<<0, 0>>}, {<<1, 1>>}, {<<2, 1>>}, {<<3, 1>>},
     {<<0, 1>>, <<1, 1>>, <<2, 1>>},
     {<<1, 1>>, <<2, 1>>, <<1, 2>>}}

DirectRegions == {{<<1, 1>>}, {<<2, 1>>}, {<<0, 1>>, <<1, 1>>, <<2, 1>>}}

\* what the detector can return for an image: an ordered list of disjoint
\* regions of that image
RawLists(img) ==
    LET inside == {r \in RawRegions : r \subseteq BoxPixels(img.bbox)}
    IN  {l \in UNION {[1 .. n -> inside] : n \in 0 .. MaxRaw} :
            \A i, j \in DOMAIN l : i # j => l[i] \cap l[j] = {}}

PlaneLists == UNION {[1 .. n -> PlaneNames] : n \in 0 .. MaxPlanes}

\* the options apply reads before it resets the list, in the order it reads
\* them
ApplyOptions ==
    <<"fpNpixMin", "fpGrowPix", "detOnTemplate", "detThreshold", "detThresholdType">>

\* the options a policy may lack: none, the first or the last apply reads,
\* the one growCandidate reads, the one the constructor reads
MissingChoices ==
    {{}, {"fpNpixMin"}, {"detThresholdType"}, {"fpNpixMax"}, {"badMaskPlanes"}}

Policy(planes, npixMax, grow, onTemplate, missing) ==
    [badMaskPlanes |-> planes, fpNpixMax |-> npixMax,
     fpGrowPix |-> grow, detOnTemplate |-> onTemplate, missing |-> missing]

\* Policy::getInt, getBool, getDouble, getString throw for a name the policy
\* does not hold
PolicyReadThrows(p) == \E i \in DOMAIN ApplyOptions : ApplyOptions[i] \in p.missing

\* the read of fpNpixMax on entry to growCandidate throws for a policy that
\* does not hold it
NpixMaxReadThrows(p) == "fpNpixMax" \in p.missing

\* the read of badMaskPlanes in the constructor throws for a policy that does
\* not hold it
ConstructorThrows(p) == "badMaskPlanes" \in p.missing

NoImage == Image(Box(0, 0, 0, 0), CleanMask(Box(0, 0, 0, 0)))

(***************************************************************************)
(* Initial states: the object after construction.                          *)
(***************************************************************************)
\* no call in progress: the arguments and locals of the last call are gone
NoCall ==
    /\ caller = "none"
    /\ tmpl = NoImage
    /\ sci = NoImage
    /\ growPix = 0
    /\ raws = <<>>
    /\ idx = 1
    /\ fp = {}
    /\ rawFp = {}
    /\ depth = 0
    /\ fpGrow = {}
    /\ ret = "none"
    /\ preList = <<>>
    /\ outcome = "none"
    /\ priorLen = 0

SolverIdle ==
    /\ solverState = "collecting"
    /\ nCandidates = 0
    /\ nUsed = 0
    /\ lastCall = "none"
    /\ lastResult = "none"

\* the constructor: when its read of badMaskPlanes throws there is no object
\* and nothing can be called (pc = "noObject")
Constructed(p) ==
    /\ policy = p
    /\ badBitMask = IF ConstructorThrows(p) THEN 0 ELSE Constructor(p)
    /\ pc = IF ConstructorThrows(p) THEN "noObject" ELSE "idle"
    /\ footprints = <<>>
    /\ accepted = <<>>
    /\ directCalls = 0
    /\ NoCall

\* a policy that lacks badMaskPlanes holds no plane names
PlanesHeld(planes, missing) == IF "badMaskPlanes" \in missing THEN <<>> ELSE planes

Init ==
    /\ \E npixMax \in NpixMaxValues, grow \in GrowMargins, onTemplate \in BOOLEAN,
          missing \in MissingChoices :
          Constructed(Policy(PlanesHeld(<<"BAD">>, missing), npixMax, grow,
                             onTemplate, missing))
    /\ SolverIdle

InitMask ==
    /\ \E planes \in PlaneLists, missing \in MissingChoices :
          Constructed(Policy(PlanesHeld(planes, missing), 2, 1, TRUE, missing))
    /\ SolverIdle

(***************************************************************************)
(* apply                                                                   *)
(***************************************************************************)
\* the history kept beside _footprints: what remains of the list after the
\* reset was accepted before this pass
Stale(list) == [i \in 1 .. Len(list) |-> [accepted[i] EXCEPT !.via = "stale"]]

\* apply when a policy read throws: the exception leaves apply before the
\* reset, so the list stays as it was (the images are never looked at)
ApplyPolicyError ==
    /\ pc = "idle"
    /\ PolicyReadThrows(policy)
    /\ outcome' = "policyError"
    /\ pc' = "returned"
    /\ accepted' = Stale(footprints)
    /\ priorLen' = Len(footprints)
    /\ UNCHANGED <<policy, badBitMask, footprints, caller, tmpl, sci, growPix, raws,
                   idx, fp, rawFp, depth, fpGrow, ret, preList, directCalls>>
    /\ UNCHANGED solverVars

\* apply up to the loop: the policy is read, the list is reset and detection
\* runs on the image the policy names
ApplyBegin ==
    /\ pc = "idle"
    /\ ~PolicyReadThrows(policy)
    /\ \E pair \in ImagePairs :
          /\ tmpl' = pair[1]
          /\ sci' = pair[2]
          /\ \E list \in RawLists(IF policy.detOnTemplate THEN pair[1] ELSE pair[2]) :
                raws' = list
    /\ footprints' = Cleared(footprints)
    /\ accepted' = Stale(footprints')
    /\ growPix' = policy.fpGrowPix
    /\ idx' = 1
    /\ pc' = "apply"
    /\ caller' = "apply"
    /\ directCalls' = 0
    /\ priorLen' = Len(footprints)
    /\ UNCHANGED <<policy, badBitMask, fp, rawFp, depth, fpGrow, ret, preList, outcome>>
    /\ UNCHANGED solverVars

\* one iteration of the loop: growCandidate is called on the next raw region
ApplyCall ==
    /\ pc = "apply"
    /\ idx <= Len(raws)
    /\ fp' = raws[idx]
    /\ rawFp' = raws[idx]
    /\ depth' = 0
    /\ fpGrow' = {}
    /\ ret' = "none"
    /\ preList' = footprints
    /\ pc' = "grow"
    /\ UNCHANGED <<policy, badBitMask, footprints, caller, tmpl, sci, growPix, raws,
                   idx, outcome, accepted, directCalls, priorLen>>
    /\ UNCHANGED solverVars

\* after the loop: throw when nothing was accepted, else return
ApplyEnd ==
    /\ pc = "apply"
    /\ idx > Len(raws)
    /\ outcome' = IF NoFootprints(footprints, raws) THEN "raised" ELSE "returned"
    /\ pc' = "returned"
    /\ UNCHANGED <<policy, badBitMask, footprints, caller, tmpl, sci, growPix, raws,
                   idx, fp, rawFp, depth, fpGrow, ret, preList, accepted, directCalls,
                   priorLen>>
    /\ UNCHANGED solverVars

(***************************************************************************)
(* growCandidate                                                           *)
(***************************************************************************)
\* a call of growCandidate from outside apply
DirectCall ==
    /\ pc = "idle"
    /\ directCalls < MaxDirect
    /\ \E pair \in DirectPairs, region \in DirectRegions, grow \in GrowMargins :
          /\ tmpl' = pair[1]
          /\ sci' = pair[2]
          /\ growPix' = grow
          /\ fp' = region
          /\ rawFp' = region
    /\ directCalls' = directCalls + 1
    /\ caller' = "direct"
    /\ pc' = "grow"
    /\ preList' = footprints
    /\ UNCHANGED <<policy, badBitMask, footprints, accepted, raws, idx, depth, fpGrow,
                   ret, outcome, priorLen>>
    /\ UNCHANGED solverVars

\* growCandidate when its read of fpNpixMax throws: the exception leaves
\* growCandidate before it looks at the footprint, nothing is stored, and a
\* call made by the loop of apply takes apply with it
GrowPolicyError ==
    /\ pc = "grow"
    /\ NpixMaxReadThrows(policy)
    /\ ret' = "threw"
    /\ outcome' = IF caller = "apply" THEN "growError" ELSE outcome
    /\ pc' = "returned"
    /\ UNCHANGED <<policy, badBitMask, footprints, caller, tmpl, sci, growPix, raws,
                   idx, fp, rawFp, depth, fpGrow, preList, accepted, directCalls,
                   priorLen>>
    /\ UNCHANGED solverVars

\* Failure Condition 1: the footprint is replaced by its core and
\* growCandidate calls itself (the depth counter saturates at MaxDepth)
GrowRecurse ==
    /\ pc = "grow"
    /\ ~NpixMaxReadThrows(policy)
    /\ Oversize(fp, policy.fpNpixMax)
    /\ fp' = Core(fp)
    /\ depth' = IF depth < MaxDepth THEN depth + 1 ELSE depth
    /\ UNCHANGED <<policy, badBitMask, footprints, pc, caller, tmpl, sci, growPix,
                   raws, idx, rawFp, fpGrow, ret, preList, outcome, accepted,
                   directCalls, priorLen>>
    /\ UNCHANGED solverVars

\* the rest of growCandidate: grow, test, store or reject, return to the caller
GrowDecide ==
    /\ pc = "grow"
    /\ ~NpixMaxReadThrows(policy)
    /\ ~Oversize(fp, policy.fpNpixMax)
    /\ LET g == Dilated(fp, growPix)
           good == GoodCandidate(g, tmpl, sci, badBitMask)
       IN  /\ fpGrow' = g
           /\ ret' = IF good THEN "true" ELSE "false"
           /\ footprints' = IF good THEN PushBack(footprints, g) ELSE footprints
           /\ accepted' = IF good
                          THEN Append(accepted,
                                      [via |-> caller, raw |-> idx, region |-> g])
                          ELSE accepted
    /\ pc' = IF caller = "apply" THEN "apply" ELSE "returned"
    /\ idx' = IF caller = "apply" THEN idx + 1 ELSE idx
    /\ UNCHANGED <<policy, badBitMask, caller, tmpl, sci, growPix, raws, fp, rawFp,
                   depth, preList, outcome, directCalls, priorLen>>
    /\ UNCHANGED solverVars

\* control is back with the caller of apply or of growCandidate
Return ==
    /\ pc = "returned"
    /\ pc' = "idle"
    /\ caller' = "none"
    /\ tmpl' = NoImage
    /\ sci' = NoImage
    /\ growPix' = 0
    /\ raws' = <<>>
    /\ idx' = 1
    /\ fp' = {}
    /\ rawFp' = {}
    /\ depth' = 0
    /\ fpGrow' = {}
    /\ ret' = "none"
    /\ preList' = <<>>
    /\ outcome' = "none"
    /\ priorLen' = 0
    /\ UNCHANGED <<policy, badBitMask, footprints, accepted, directCalls>>
    /\ UNCHANGED solverVars

Next ==
    \/ ApplyPolicyError
    \/ ApplyBegin
    \/ ApplyCall
    \/ ApplyEnd
    \/ DirectCall
    \/ GrowPolicyError
    \/ GrowRecurse
    \/ GrowDecide
    \/ Return

Spec == Init /\ [][Next]_vars

SpecMask == InitMask /\ [][Next]_vars

(***************************************************************************)
(* The spatial kernel solver (BuildSpatialKernelVisitor).                  *)
(***************************************************************************)
\* getNCandidates
GetNCandidates == nCandidates

\* the state solveLinearEquation leaves the solver in
AfterSolve(state, singular) ==
    IF state = "collecting" /\ ~singular THEN "solved" ELSE state

\* the state getSolutionPair leaves the solver in
AfterGetAlways(state) == "packaged"
AfterGet(state) == IF state = "collecting" THEN "collecting" ELSE "packaged"

\* processCandidate: the candidate is visited and counted; a malformed or
\* singular contribution is skipped
ProcessCandidate ==
    /\ solverState = "collecting"
    /\ nCandidates < MaxCandidates
    /\ \E wellFormed \in BOOLEAN :
          /\ nUsed' = IF wellFormed THEN nUsed + 1 ELSE nUsed
          /\ lastResult' = IF wellFormed THEN "ok" ELSE "skipped"
    /\ nCandidates' = nCandidates + 1
    /\ lastCall' = "processCandidate"
    /\ UNCHANGED solverState
    /\ UNCHANGED growerVars

\* solveLinearEquation: the accumulated system is solved, or is singular
SolveLinearEquation ==
    /\ solverState = "collecting"
    /\ \E singular \in BOOLEAN :
          /\ nUsed = 0 => singular
          /\ solverState' = AfterSolve(solverState, singular)
          /\ lastResult' = IF singular THEN "error" ELSE "ok"
    /\ lastCall' = "solveLinearEquation"
    /\ UNCHANGED <<nCandidates, nUsed>>
    /\ UNCHANGED growerVars

\* getSolutionPair: the kernel and the background, once there is a solution
GetSolutionPair ==
    /\ solverState' = AfterGet(solverState)
    /\ lastResult' = IF solverState = "collecting" THEN "error" ELSE "pair"
    /\ lastCall' = "getSolutionPair"
    /\ UNCHANGED <<nCandidates, nUsed>>
    /\ UNCHANGED growerVars

InitSolver ==
    /\ Constructed(Policy(<<"BAD">>, 2, 1, TRUE, {}))
    /\ SolverIdle

NextSolver == ProcessCandidate \/ SolveLinearEquation \/ GetSolutionPair

SpecSolver == InitSolver /\ [][NextSolver]_vars

(***************************************************************************)
(* Properties.                                                             *)
(***************************************************************************)
IsBad(img, p) == p \in DOMAIN img.mask /\ BitAnd(img.mask[p], badBitMask) # 0

\* the box lies inside the image and no mask pixel in it has a bad bit
InsideAndClean(img, b) ==
    /\ ~IsEmpty(b)
    /\ b.minX >= img.bbox.minX /\ b.maxX <= img.bbox.maxX
    /\ b.minY >= img.bbox.minY /\ b.maxY <= img.bbox.maxY
    /\ \A p \in BoxPixels(b) : ~IsBad(img, p)

\* growCandidate has come to a decision in the call in progress
Decided == ret \in {"true", "false"}

\* C1: every stored region has its bounding box inside the template and the
\* science image it was accepted against, and no mask pixel of either image
\* in that box has a bad bit: all members during and after an apply, the new
\* member after a direct growCandidate call.
StoredRegionsInsideBothAndClean ==
    /\ caller = "apply" =>
          \A i \in DOMAIN footprints :
              /\ InsideAndClean(tmpl, GetBBox(footprints[i]))
              /\ InsideAndClean(sci, GetBBox(footprints[i]))
    /\ caller = "direct" /\ ret = "true" =>
          /\ footprints # <<>>
          /\ InsideAndClean(tmpl, GetBBox(footprints[Len(footprints)]))
          /\ InsideAndClean(sci, GetBBox(footprints[Len(footprints)]))

\* a region was accepted against images with different bounds, one masked
AcceptedWithDifferentBounds ==
    /\ caller = "apply"
    /\ pc = "returned"
    /\ tmpl.bbox # sci.bbox
    /\ Len(raws) = 2
    /\ Len(footprints) = 1
    /\ \E p \in DOMAIN sci.mask : IsBad(sci, p)

ContaminatedRegionRejected ==
    Decided /\ (\E p \in BoxPixels(GetBBox(fpGrow)) : IsBad(tmpl, p) \/ IsBad(sci, p))
        => ret = "false" /\ footprints = preList

\* the bad pixel is in the science mask alone, in a corner of the box that
\* the diamond does not cover, and detection ran on the science image
RejectedForCornerPixelOfScience ==
    /\ Decided
    /\ ret = "false"
    /\ ~policy.detOnTemplate
    /\ caller = "apply"
    /\ ~GrownOffImage(tmpl, GetBBox(fpGrow))
    /\ \A p \in DOMAIN tmpl.mask : ~IsBad(tmpl, p)
    /\ \E p \in BoxPixels(GetBBox(fpGrow)) : p \notin fpGrow /\ IsBad(sci, p)

\* C4: the oversize recursion is entered at most once for a raw region.
OversizeRecursionAtMostOnce == depth <= 1

\* C5 as stated: the grown bounding box contains the bounding box of the
\* region the outermost call was given.
GrownBBoxContainsRawBBox ==
    Decided => Contains(GetBBox(fpGrow), GetBBox(rawFp))

\* C5 amended: the grown bounding box contains the bounding box of the
\* region that was dilated, which is the region passed in when it is not
\* oversize and else the single pixel at the centre of its bounding box.
GrownBBoxContainsDilatedBBox ==
    Decided =>
        /\ ~IsEmpty(GetBBox(fpGrow))
        /\ Contains(GetBBox(fpGrow), GetBBox(fp))
        /\ depth = 0 => fp = rawFp
        /\ depth > 0 => GetArea(fp) = 1 /\ Contains(GetBBox(rawFp), GetBBox(fp))

\* an oversize region was replaced by its core, grown by one pixel, stored
CoreGrownAndStored ==
    /\ Decided
    /\ ret = "true"
    /\ depth = 1
    /\ growPix = 1
    /\ GetArea(rawFp) > 1

\* C6 as stated: once apply has reset the list or has ended, in any way, the
\* list holds exactly the regions accepted in that call and none stored
\* before it.
ListHoldsOnlyThisCall ==
    caller = "apply" \/ outcome # "none" =>
        /\ Len(footprints) = Len(accepted)
        /\ \A i \in DOMAIN footprints :
              /\ i \in DOMAIN accepted
              /\ accepted[i].via = "apply"
              /\ accepted[i].region = footprints[i]

\* C6 amended: an apply whose own policy reads succeed resets the list,
\* which from then on holds exactly the regions accepted in that call, in the
\* order of their acceptance, and is empty after the pass-level error and
\* after the exception of growCandidate's read of fpNpixMax; an apply that
\* one of its own policy reads ends leaves the list exactly as it was.
ListHoldsOnlyThisPass ==
    /\ caller = "apply" =>
          /\ Len(footprints) = Len(accepted)
          /\ \A i \in DOMAIN footprints :
                /\ i \in DOMAIN accepted
                /\ accepted[i].via = "apply"
                /\ accepted[i].region = footprints[i]
          /\ outcome \in {"raised", "growError"} => footprints = <<>>
          /\ outcome \in {"none", "raised", "returned", "growError"}
    /\ outcome = "policyError" =>
          /\ PolicyReadThrows(policy)
          /\ caller = "none"
          /\ Len(footprints) = priorLen
          /\ Len(footprints) = Len(accepted)
          /\ \A i \in DOMAIN footprints :
                /\ i \in DOMAIN accepted
                /\ accepted[i].via = "stale"
                /\ accepted[i].region = footprints[i]
    /\ PolicyReadThrows(policy) => caller # "apply"

\* apply was called with regions in the list, rejected every raw region
\* and raised
RaisedAfterEarlierAcceptance ==
    /\ caller = "apply"
    /\ pc = "returned"
    /\ outcome = "raised"
    /\ priorLen > 0
    /\ raws # <<>>

\* C7: a growCandidate call that apply makes comes to a decision, on the raw
\* region or on its core, so the loop goes on to the next raw region.
EveryCandidateCallDecides ==
    pc = "grow" /\ caller = "apply" =>
        \/ ~Oversize(fp, policy.fpNpixMax)
        \/ ~Oversize(Core(fp), policy.fpNpixMax)

\* C8: the bad-bit mask has exactly the bits of the known names among
\* badMaskPlanes, in every state.
BadPlaneBits == 0 .. 7
BadBitMaskIsOrOfKnownPlanes ==
    /\ badBitMask \in 0 .. 255
    /\ \A b \in BadPlaneBits :
          BitSet(badBitMask, b) <=>
              \E i \in DOMAIN policy.badMaskPlanes :
                  /\ KnownPlane(policy.badMaskPlanes[i])
                  /\ PlaneBit[policy.badMaskPlanes[i]] = b

\* an unknown name precedes a known one, and an apply has stored a region
KnownPlaneAfterUnknownCounts ==
    /\ policy.badMaskPlanes = <<"NOPE", "SAT">>
    /\ badBitMask = 2
    /\ pc = "returned"
    /\ outcome = "returned"

\* C9: the solver only moves forward, leaves collecting only in a successful
\* solveLinearEquation, yields a pair only once solved, and its candidate
\* counter changes only in processCandidate.
Rank(state) == IF state = "collecting" THEN 0 ELSE IF state = "solved" THEN 1 ELSE 2
SolverMovesForward ==
    [][/\ Rank(solverState') >= Rank(solverState)
       /\ Rank(solverState') <= Rank(solverState) + 1
       /\ solverState = "collecting" /\ solverState' # "collecting" =>
             lastCall' = "solveLinearEquation" /\ lastResult' = "ok"
       /\ solverState' = "packaged" /\ solverState # "packaged" =>
             lastCall' = "getSolutionPair"
       /\ lastResult' = "pair" =>
             lastCall' = "getSolutionPair" /\ solverState # "collecting"
       /\ GetNCandidates' # GetNCandidates => lastCall' = "processCandidate"]_vars

\* candidates were visited, the system solved and the pair handed out twice
PackagedTwice ==
    /\ solverState = "packaged"
    /\ lastResult = "pair"
    /\ nCandidates >= 2
    /\ nUsed < nCandidates

\* the region growCandidate dilates for a raw region
DilatedRegion(raw) == IF Oversize(raw, policy.fpNpixMax) THEN Core(raw) ELSE raw

\* C10: growCandidate returns true exactly when it appended the grown region
\* to the end of the list and false exactly when it left the list as it was
\* (a call that ends in an exception returns nothing and leaves the list as
\* it was); during apply the members are the grown regions of distinct raw
\* regions, in the detector's order.
ReturnAgreesWithList ==
    /\ pc = "grow" => footprints = preList
    /\ ret = "threw" => footprints = preList
    /\ Decided => (ret = "true" <=> footprints = Append(preList, fpGrow))
    /\ Decided => (ret = "false" <=> footprints = preList)
    /\ caller = "apply" =>
          /\ Len(footprints) = Len(accepted)
          /\ Len(footprints) <= Len(raws)
          /\ \A i \in DOMAIN footprints :
                /\ accepted[i].raw \in 1 .. Len(raws)
                /\ accepted[i].raw < idx
                /\ footprints[i] = Dilated(DilatedRegion(raws[accepted[i].raw]), growPix)
          /\ \A i, j \in DOMAIN footprints : i < j => accepted[i].raw < accepted[j].raw

\* two different raw regions were accepted in one pass
TwoAcceptedInOrder ==
    /\ caller = "apply"
    /\ pc = "returned"
    /\ Len(footprints) = 2
    /\ footprints[1] # footprints[2]
    /\ ret = "true"

====
